---------------------------- MODULE Spec2Model ----------------------------
(***************************************************************************)
(* A model of ShiftedBetaSurvival/ShiftedBeta.py (class ShiftedBeta): the  *)
(* indicator map, the retention recursion, the negative log-likelihood and *)
(* the multi-start fit.                                                    *)
(*                                                                         *)
(* Numbers.  alpha_comb and beta_comb are numpy.float64 values, so the     *)
(* recursion runs in binary floating point: every +, -, * and / rounds to  *)
(* nearest-even, overflows to inf and underflows (through subnormals) to   *)
(* 0, and a division by zero gives inf or nan instead of raising.  The     *)
(* model keeps that arithmetic with a narrower format: a mantissa of Prec  *)
(* bits (53 in float64) and normal values between 2^-ExpRange and          *)
(* 2^(ExpRange+1).  Values of numpy.log are kept symbolically: the         *)
(* logarithm of a positive float is irrational and is represented by its   *)
(* argument, and sums of count * log(x) are bags of arguments.             *)
(***************************************************************************)
EXTENDS Integers, Sequences, FiniteSets, Bags, TLC

(***************************************************************************)
(* Bounds of the model.                                                    *)
(***************************************************************************)
Prec == 8
ExpRange == 10

(***************************************************************************)
(* Floating point.  A float is [k, m, e]: k = "fin" is the value m * 2^e   *)
(* (m = 0, e = 0 for zero; otherwise 2^(Prec-1) <= |m| < 2^Prec, or a      *)
(* smaller |m| at e = ExpLo: a subnormal); k = "inf", "ninf", "nan" are    *)
(* the three special values, with m = e = 0.  e is the exponent of the     *)
(* mantissa's last bit.                                                    *)
(***************************************************************************)
ExpLo == 1 - ExpRange - Prec
ExpHi == 1 + ExpRange - Prec

RECURSIVE Pow2(_)
Pow2(n) == IF n <= 0 THEN 1 ELSE 2 * Pow2(n - 1)

Abs(i) == IF i < 0 THEN -i ELSE i

\* the mantissa of a normal float lies in MantLo .. MantHi - 1
MantLo == Pow2(Prec - 1)
MantHi == Pow2(Prec)

Fin(m, e) == [k |-> "fin", m |-> m, e |-> e]
FZero == Fin(0, 0)
FInf == [k |-> "inf", m |-> 0, e |-> 0]
FNegInf == [k |-> "ninf", m |-> 0, e |-> 0]
FNaN == [k |-> "nan", m |-> 0, e |-> 0]

IsFin(x) == x.k = "fin"
IsNaN(x) == x.k = "nan"

\* round a / d (a >= 0, d > 0) to the nearest integer, ties to even
RoundHalfEven(a, d) ==
    LET q == a \div d
        r == a % d
    IN  IF 2 * r > d \/ (2 * r = d /\ q % 2 = 1) THEN q + 1 ELSE q

\* the float nearest to s * (a / d) * 2^e, for s in {-1, 1}, a >= 0, d > 0
RECURSIVE Normalise(_, _, _, _)
Normalise(s, a, d, e) ==
    IF a = 0 THEN FZero
    ELSE IF e < ExpLo \/ a >= d * MantHi THEN Normalise(s, a, 2 * d, e + 1)
    ELSE IF a < d * MantLo /\ e > ExpLo THEN Normalise(s, 2 * a, d, e - 1)
    ELSE LET q == RoundHalfEven(a, d)
             m == IF q = MantHi THEN MantLo ELSE q
             x == IF q = MantHi THEN e + 1 ELSE e
         IN  IF m = 0 THEN FZero
             ELSE IF x > ExpHi THEN (IF s < 0 THEN FNegInf ELSE FInf)
             ELSE Fin(s * m, x)

Round(n, d, e) == Normalise(IF n < 0 THEN -1 ELSE 1, Abs(n), d, e)

\* a Python int as a float
FInt(i) == Round(i, 1, 0)

Sign(x) ==
    CASE x.k = "inf" -> 1
      [] x.k = "ninf" -> -1
      [] x.k = "nan" -> 0
      [] OTHER -> IF x.m > 0 THEN 1 ELSE IF x.m < 0 THEN -1 ELSE 0

FNeg(x) ==
    CASE x.k = "inf" -> FNegInf
      [] x.k = "ninf" -> FInf
      [] x.k = "nan" -> FNaN
      [] OTHER -> Fin(-x.m, x.e)

FAdd(x, y) ==
    IF IsNaN(x) \/ IsNaN(y) THEN FNaN
    ELSE IF ~IsFin(x) /\ ~IsFin(y) THEN (IF x.k = y.k THEN x ELSE FNaN)
    ELSE IF ~IsFin(x) THEN x
    ELSE IF ~IsFin(y) THEN y
    ELSE IF x.m = 0 THEN y
    ELSE IF y.m = 0 THEN x
    \* an operand below a quarter of the other's last bit is absorbed
    ELSE IF x.e > y.e + Prec + 2 THEN x
    ELSE IF y.e > x.e + Prec + 2 THEN y
    ELSE LET e == IF x.e < y.e THEN x.e ELSE y.e
         IN  Round(x.m * Pow2(x.e - e) + y.m * Pow2(y.e - e), 1, e)

FSub(x, y) == FAdd(x, FNeg(y))

FMul(x, y) ==
    IF IsNaN(x) \/ IsNaN(y) THEN FNaN
    ELSE IF ~IsFin(x) \/ ~IsFin(y)
         THEN (IF Sign(x) * Sign(y) = 0 THEN FNaN
               ELSE IF Sign(x) * Sign(y) > 0 THEN FInf ELSE FNegInf)
    ELSE Round(x.m * y.m, 1, x.e + y.e)

FDiv(x, y) ==
    IF IsNaN(x) \/ IsNaN(y) THEN FNaN
    ELSE IF ~IsFin(x) /\ ~IsFin(y) THEN FNaN
    ELSE IF ~IsFin(x)
         THEN (IF Sign(x) * (IF Sign(y) < 0 THEN -1 ELSE 1) > 0 THEN FInf ELSE FNegInf)
    ELSE IF ~IsFin(y) THEN FZero
    ELSE IF y.m = 0
         THEN (IF x.m = 0 THEN FNaN ELSE IF x.m > 0 THEN FInf ELSE FNegInf)
    ELSE Round(IF y.m < 0 THEN -x.m ELSE x.m, Abs(y.m), x.e - y.e)

\* x >= y on floats (false whenever a nan is involved, as in IEEE 754)
FGe(x, y) ==
    IF IsNaN(x) \/ IsNaN(y) THEN FALSE
    ELSE IF x.k = "inf" \/ y.k = "ninf" THEN TRUE
    ELSE IF x.k = "ninf" \/ y.k = "inf" THEN FALSE
    ELSE IF Sign(x) # Sign(y) THEN Sign(x) > Sign(y)
    ELSE IF x.e > y.e + Prec THEN x.m > 0
    ELSE IF y.e > x.e + Prec THEN y.m < 0
    ELSE LET e == IF x.e < y.e THEN x.e ELSE y.e
         IN  x.m * Pow2(x.e - e) >= y.m * Pow2(y.e - e)

FLe(x, y) == FGe(y, x)

(***************************************************************************)
(* Python values.  A Python list is a sequence whose element i (from 0) is *)
(* at position i + 1; None is a value of its own.                          *)
(***************************************************************************)
None == [k |-> "none", m |-> 0, e |-> 0]

PyAt(list, i) == list[i + 1]

\* list[a:b] for 0 <= a: the elements a .. min(b, len) - 1
PySlice(list, a, b) ==
    LET hi == IF b < Len(list) THEN b ELSE Len(list)
    IN  IF hi <= a THEN << >> ELSE [i \in 1..(hi - a) |-> list[a + i]]

(***************************************************************************)
(* ShiftedBeta._recursive_retention_stats(alpha, beta, num_periods)        *)
(***************************************************************************)
\* a slip in line 124: the numerator taken one period late, beta + t - 1
RetentionStepLate(alpha, beta, t, p) ==
    FMul(FDiv(FSub(FAdd(beta, FInt(t)), FInt(1)),
              FSub(FAdd(FAdd(alpha, beta), FInt(t)), FInt(1))),
         PyAt(p, t - 1))

\* line 124: (beta + t - 2) / (alpha + beta + t - 1) * p[t-1]
RetentionStep(alpha, beta, t, p) ==
    FMul(FDiv(FSub(FAdd(beta, FInt(t)), FInt(2)),
              FSub(FAdd(FAdd(alpha, beta), FInt(t)), FInt(1))),
         PyAt(p, t - 1))

\* the values of t the loop of line 122 visits: range(2, num_periods)
RetentionRange(num_periods) == 2..(num_periods - 1)

\* lines 122-128: the loop from t on; p and s are the lists so far
RECURSIVE RetentionLoop(_, _, _, _, _, _)
\* line 128, with p already extended by line 125, then the next round
RetentionSurvival(alpha, beta, num_periods, t, p, s) ==
    RetentionLoop(alpha, beta, num_periods, t + 1, p,
                  Append(s, FSub(PyAt(s, t - 1), PyAt(p, t))))

RetentionLoop(alpha, beta, num_periods, t, p, s) ==
    IF t \notin RetentionRange(num_periods) THEN [p |-> p, s |-> s]
    ELSE RetentionSurvival(alpha, beta, num_periods, t,
                           Append(p, RetentionStep(alpha, beta, t, p)), s)

recursive_retention_stats(alpha, beta, num_periods) ==
    LET p == <<None, FDiv(alpha, FAdd(alpha, beta))>>
        s == <<None, FSub(FInt(1), PyAt(p, 1))>>
    IN  RetentionLoop(alpha, beta, num_periods, 2, p, s)

(***************************************************************************)
(* numpy.exp and numpy.log.                                                *)
(*                                                                         *)
(* Coefficients are integers in the model, so numpy.exp is needed at       *)
(* integer arguments only: e^k is built from the float nearest to e (or to *)
(* 1/e) by rounded multiplications.  It overflows to inf and underflows to *)
(* 0 as numpy.exp does.                                                    *)
(*                                                                         *)
(* A value of the log domain is [k, neg, terms]: k = "fin" is the real     *)
(* number (+/-) sum of terms[x] * log(x) over the floats x of the bag      *)
(* terms; k = "ninf", "inf", "nan" are the special floats, and k = "raise" *)
(* is an exception raised instead of a value.                              *)
(***************************************************************************)
ExpOne == Round(2721, 1001, 0)
ExpMinusOne == Round(1001, 2721, 0)

RECURSIVE NumpyExp(_)
NumpyExp(k) ==
    IF k = 0 THEN FInt(1)
    ELSE IF k > 0 THEN FMul(NumpyExp(k - 1), ExpOne)
    ELSE FMul(NumpyExp(k + 1), ExpMinusOne)

LVal(kind, bag) == [k |-> kind, neg |-> FALSE, terms |-> bag]
LZero == LVal("fin", EmptyBag)
LNegInf == LVal("ninf", EmptyBag)
LInf == LVal("inf", EmptyBag)
LNaN == LVal("nan", EmptyBag)
LRaise == LVal("raise", EmptyBag)

NumpyLog(x) ==
    CASE x = None -> LRaise
      [] x.k = "nan" -> LNaN
      [] x.k = "inf" -> LInf
      [] x.k = "ninf" -> LNaN
      [] OTHER -> IF x.m < 0 THEN LNaN
                  ELSE IF x.m = 0 THEN LNegInf
                  ELSE IF x = FInt(1) THEN LZero
                  ELSE LVal("fin", SetToBag({x}))

\* v * c for a log value v and a count c >= 0
LTimes(v, c) ==
    CASE v.k = "raise" -> LRaise
      [] v.k = "nan" -> LNaN
      [] v.k = "fin" -> IF c = 0 THEN LZero
                        ELSE LVal("fin", [x \in DOMAIN v.terms |-> c * v.terms[x]])
      [] OTHER -> IF c = 0 THEN LNaN ELSE v

LAdd(u, v) ==
    IF u.k = "raise" \/ v.k = "raise" THEN LRaise
    ELSE IF u.k = "nan" \/ v.k = "nan" THEN LNaN
    ELSE IF u.k = "fin" /\ v.k = "fin" THEN LVal("fin", u.terms (+) v.terms)
    ELSE IF u.k = "fin" THEN v
    ELSE IF v.k = "fin" THEN u
    ELSE IF u.k = v.k THEN u
    ELSE LNaN

LNeg(v) ==
    CASE v.k = "inf" -> LNegInf
      [] v.k = "ninf" -> LInf
      [] v.k = "fin" -> [v EXCEPT !.neg = (v.terms # EmptyBag) /\ ~v.neg]
      [] OTHER -> v

\* the builtin sum over a list of log values
RECURSIVE PySum(_)
PySum(list) ==
    IF list = << >> THEN LZero
    ELSE LAdd(PySum(SubSeq(list, 1, Len(list) - 1)), list[Len(list)])

\* list[i] with Python's negative indices; defined for -len <= i < len
PyIndex(list, i) == IF i < 0 THEN list[Len(list) + i + 1] ELSE list[i + 1]

PyIndexError(list, i) == i >= Len(list) \/ i < -Len(list)

(***************************************************************************)
(* The object.  data maps a category to its list of cohorts; a cohort is   *)
(* the pair (active, lost) of two lists of counts of one length.           *)
(***************************************************************************)
RECURSIVE sorted(_)
sorted(S) ==
    IF S = {} THEN << >>
    ELSE LET least == CHOOSE x \in S : \A y \in S : x <= y
         IN  <<least>> \o sorted(S \ {least})

\* a slip in lines 75-82: the intercept entry (line 78) left out
IndicatorVectorNoIntercept(n_cats, i) == [j \in 1..n_cats |-> j - 1 = i]

\* ShiftedBeta.indicator_map: the vector of the category at index i
IndicatorVector(n_cats, i) == [j \in 1..n_cats |-> (j - 1 = 0) \/ (j - 1 = i)]

indicator_map(categories, n_cats) ==
    [c \in {categories[j] : j \in 1..Len(categories)} |->
        IndicatorVector(n_cats, (CHOOSE j \in 1..Len(categories) : categories[j] = c) - 1)]

\* vector[bool_ind].sum(): the sum of the entries the mask selects
RECURSIVE MaskedSum(_, _, _)
MaskedSum(vector, bool_ind, j) ==
    IF j > Len(vector) THEN 0
    ELSE (IF bool_ind[j] THEN vector[j] ELSE 0) + MaskedSum(vector, bool_ind, j + 1)

(***************************************************************************)
(* ShiftedBeta._logp(alpha, beta)                                          *)
(***************************************************************************)
\* line 193: numpy.log(pt[1:length]) * lost[1:length]
Died(pt, lost, length) ==
    LET ps == PySlice(pt, 1, length)
        ls == PySlice(lost, 1, length)
    IN  [i \in 1..Len(ps) |-> LTimes(NumpyLog(ps[i]), ls[i])]

\* a slip in line 197: the cohort's initial size, active[0], as the count
StillActiveInitial(sf, active, length) ==
    IF PyIndexError(sf, length - 1) \/ PyIndexError(active, 0) THEN LRaise
    ELSE LTimes(NumpyLog(PyIndex(sf, length - 1)), PyIndex(active, 0))

\* line 197: numpy.log(sf[length - 1]) * active[length - 1]
StillActive(sf, active, length) ==
    IF PyIndexError(sf, length - 1) \/ PyIndexError(active, length - 1) THEN LRaise
    ELSE LTimes(NumpyLog(PyIndex(sf, length - 1)), PyIndex(active, length - 1))

\* lines 193-200: what one cohort adds to log_like, given the recursion's
\* result out = (pt, sf)
CohortSum(val, length, out) ==
    LAdd(PySum(Died(out.p, val.lost, length)), StillActive(out.s, val.active, length))

\* lines 174-200: what one cohort val = (active, lost) adds to log_like
CohortLogLike(alpha_comb, beta_comb, val) ==
    CohortSum(val, Len(val.active),
              recursive_retention_stats(alpha_comb, beta_comb, Len(val.active)))

\* lines 169-200: the loop over the cohorts of one category, from cohort i on
RECURSIVE CohortsLogLike(_, _, _, _, _)
CohortsLogLike(log_like, alpha_comb, beta_comb, cohorts, i) ==
    IF i > Len(cohorts) THEN log_like
    ELSE CohortsLogLike(LAdd(log_like, CohortLogLike(alpha_comb, beta_comb, cohorts[i])),
                        alpha_comb, beta_comb, cohorts, i + 1)

\* lines 159-200: the loop over the categories, from category i on.  The
\* order of a dict's items does not matter to a sum of the log domain.
RECURSIVE CategoriesLogLike(_, _, _, _, _, _, _)
CategoriesLogLike(log_like, d, im, names, alpha, beta, i) ==
    IF i > Len(names) THEN log_like
    ELSE LET bool_ind == im[names[i]]
             alpha_comb == NumpyExp(MaskedSum(alpha, bool_ind, 1))
             beta_comb == NumpyExp(MaskedSum(beta, bool_ind, 1))
         IN  CategoriesLogLike(
                 CohortsLogLike(log_like, alpha_comb, beta_comb, d[names[i]], 1),
                 d, im, names, alpha, beta, i + 1)

\* _logp on the object whose data is d and whose imap is im
LogpOf(d, im, alpha, beta) ==
    LNeg(CategoriesLogLike(LZero, d, im, sorted(DOMAIN d), alpha, beta, 1))

VARIABLES
    data,           \* self.data
    categories,     \* self.categories
    n_cats,         \* self.n_cats
    imap,           \* self.imap
    alpha,          \* self.alpha
    beta,           \* self.beta
    opt,            \* self.opt; None is the empty vector
    r_pc,           \* "call" before, "done" after the call of the recursion
    r_alpha,        \* its arguments
    r_beta,
    r_num_periods,
    r_out,          \* its result [p, s]
    l_pc,           \* "call" before, "done" after the call of _logp
    l_alpha,        \* its arguments: the two halves of a coefficient vector
    l_beta,
    l_out,          \* its result
    seed,           \* the state numpy.random's global generator was seeded to
    rng,            \* the state of numpy.random's global generator
    minimizer,      \* what scipy's minimize returns, per basin of the start
    call,           \* the last call on the object and what it did
    fits,           \* what the last two calls of fit published
    n_calls         \* the number of calls made on the object

objVars == <<data, categories, n_cats, imap, alpha, beta, opt>>
recVars == <<r_pc, r_alpha, r_beta, r_num_periods, r_out>>
logpVars == <<l_pc, l_alpha, l_beta, l_out>>
envVars == <<seed, rng, minimizer, call, fits, n_calls>>
vars == <<objVars, recVars, logpVars, envVars>>

OptNone == << >>

\* ShiftedBeta.__init__(d): the object's fields after construction
Constructed(d) ==
    /\ data = d
    /\ categories = sorted(DOMAIN d)
    /\ n_cats = Cardinality(DOMAIN d)
    /\ imap = indicator_map(sorted(DOMAIN d), Cardinality(DOMAIN d))
    /\ alpha = << >>
    /\ beta = << >>
    /\ opt = OptNone

\* no object: the recursion is a static method
NoObject ==
    /\ data = << >>
    /\ categories = << >>
    /\ n_cats = 0
    /\ imap = << >>
    /\ alpha = << >>
    /\ beta = << >>
    /\ opt = OptNone

\* self._logp(alpha, beta)
logp(a, b) == LogpOf(data, imap, a, b)

(***************************************************************************)
(* SpecRec: the retention recursion applied to positive finite arguments.  *)
(***************************************************************************)
MaxPeriods == 5
MaxInExp == 6

\* 1.0 * 2^x and 1.5 * 2^x for x in -MaxInExp..MaxInExp
RecInputs == {Round(n, 2, x) : n \in {2, 3}, x \in -MaxInExp..MaxInExp}

NoResult == [p |-> << >>, s |-> << >>]

RecIdle ==
    /\ r_pc = "idle"
    /\ r_alpha = FZero
    /\ r_beta = FZero
    /\ r_num_periods = 0
    /\ r_out = NoResult

LogpIdle ==
    /\ l_pc = "idle"
    /\ l_alpha = << >>
    /\ l_beta = << >>
    /\ l_out = LZero

NoCall == [op |-> "none"]

FitIdle ==
    /\ seed = 0
    /\ rng = 0
    /\ minimizer = << >>
    /\ call = NoCall
    /\ fits = << >>
    /\ n_calls = 0

RecInit ==
    /\ NoObject
    /\ LogpIdle
    /\ FitIdle
    /\ r_pc = "call"
    /\ r_alpha \in RecInputs
    /\ r_beta \in RecInputs
    /\ r_num_periods \in 2..MaxPeriods
    /\ r_out = NoResult

RecCall ==
    /\ r_pc = "call"
    /\ r_out' = recursive_retention_stats(r_alpha, r_beta, r_num_periods)
    /\ r_pc' = "done"
    /\ UNCHANGED <<r_alpha, r_beta, r_num_periods, objVars, logpVars, envVars>>

RecNext == RecCall

SpecRec == RecInit /\ [][RecNext]_vars

(***************************************************************************)
(* SpecLogp: an object constructed over a dataset, and _logp called once   *)
(* with a coefficient vector.                                              *)
(***************************************************************************)
MaxCohortLen == 3
MaxCount == 2

\* the number still active at period t (from 0) of a cohort that loses
\* lost[u] at each period u > t and ends with left survivors
RECURSIVE ActiveAt(_, _, _)
ActiveAt(lost, left, t) ==
    IF t >= Len(lost) THEN left ELSE lost[t + 1] + ActiveAt(lost, left, t + 1)

\* the cohort with these losses (lost[0] = 0) and these survivors
Cohort(lost, left) ==
    [active |-> [i \in 1..Len(lost) |-> ActiveAt(lost, left, i)], lost |-> lost]

LossLists(len) == {<<0>> \o tl : tl \in [1..(len - 1) -> 0..MaxCount]}

Cohorts == {Cohort(lost, left) :
               lost \in UNION {LossLists(len) : len \in 2..MaxCohortLen},
               left \in 0..MaxCount}

RefCohort == Cohort(<<0, 1, MaxCount>>, 1)

\* one category with one or two cohorts, and two categories
LogpDatasets ==
    {(1 :> <<x>>) : x \in Cohorts}
    \cup {(1 :> <<x, RefCohort>>) : x \in Cohorts}
    \cup {(1 :> <<x>>) @@ (2 :> <<RefCohort>>) :
             x \in {Cohort(<<0, 1>>, 1), Cohort(<<0, 1, 0>>, 0), Cohort(<<0, 0, MaxCount>>, 1)}}

\* coefficients: one far enough below zero for numpy.exp to underflow to 0
Coefs == {-(ExpRange + Prec), -1, 0, 1}

LogpInit ==
    /\ \E d \in LogpDatasets : Constructed(d)
    /\ RecIdle
    /\ FitIdle
    /\ l_pc = "call"
    /\ l_alpha = << >>
    /\ l_beta = << >>
    /\ l_out = LZero

LogpCall ==
    /\ l_pc = "call"
    /\ \E a \in [1..n_cats -> Coefs], b \in [1..n_cats -> Coefs] :
          /\ l_alpha' = a
          /\ l_beta' = b
          /\ l_out' = logp(a, b)
    /\ l_pc' = "done"
    /\ UNCHANGED <<objVars, recVars, envVars>>

LogpNext == LogpCall

SpecLogp == LogpInit /\ [][LogpNext]_vars

(***************************************************************************)
(* Spec: an object constructed over a dataset, then any calls of fit,      *)
(* get_coeffs and get_params.                                              *)
(*                                                                         *)
(* numpy.random is a deterministic generator with a global state, set once *)
(* from the seed and advanced by every draw.  scipy's minimize is a        *)
(* deterministic function of the objective and the start: it evaluates the *)
(* objective at the start, and returns a result (x, fun, success) that the *)
(* model takes from a table fixed for the run, indexed by the basin the    *)
(* start lies in.                                                          *)
(***************************************************************************)
MaxCats == 3
MaxRestarts == 2
MaxCalls == 2

Seeds == {0, 5}
Basins == {1, 2}

\* the generator: a full-period congruential step, and the draw
\* 4 * random() - 3 of line 213, a value of [-3, 1)
RngStep(state) == (5 * state + 3) % 8
RngDraw(state) == (4 * (state \div 2)) \div 4 - 3

\* line 213: count values drawn in a row, from generator state st
RECURSIVE DrawRow(_, _)
DrawRow(st, count) ==
    IF count = 0 THEN [row |-> << >>, rng |-> st]
    ELSE LET rest == DrawRow(RngStep(st), count - 1)
         IN  [row |-> <<RngDraw(st)>> \o rest.row, rng |-> rest.rng]

\* line 213: the restarts x (2 * n_cats) matrix of initial guesses
RECURSIVE DrawGuesses(_, _, _)
DrawGuesses(st, restarts, width) ==
    IF restarts = 0 THEN [guesses |-> << >>, rng |-> st]
    ELSE LET first == DrawRow(st, width)
             rest == DrawGuesses(first.rng, restarts - 1, width)
         IN  [guesses |-> <<first.row>> \o rest.guesses, rng |-> rest.rng]

\* the results minimize can return: converged or not, with a finite
\* objective value or nan
Outcomes ==
    {[fun |-> FInt(1), success |-> TRUE], [fun |-> FInt(2), success |-> TRUE],
     [fun |-> FInt(1), success |-> FALSE], [fun |-> FNaN, success |-> FALSE]}

Basin(guess) == IF guess[1] < -1 THEN 1 ELSE 2

\* the point minimize ends at from a start in basin b
ResultVector(b, width) == [j \in 1..width |-> ((b + j) % 3) - 1]

\* lines 228-232: minimize(lambda p: self._logp(p[:n_cats], p[n_cats:]), guess)
Minimize(guess) ==
    LET start == logp(SubSeq(guess, 1, n_cats), SubSeq(guess, n_cats + 1, 2 * n_cats))
    IN  IF start.k = "raise" THEN [raised |-> TRUE]
        ELSE [raised |-> FALSE,
              x |-> ResultVector(Basin(guess), 2 * n_cats),
              fun |-> minimizer[Basin(guess)].fun,
              success |-> minimizer[Basin(guess)].success]

\* line 240: new_opt > optimal compares the OptimizeResult, a dict, with a
\* float; Python 2 orders any number before any dict, whatever their values
ResultGreater(new_opt, optimal) == TRUE

\* lines 234-242: the two ifs after a run returned new_opt: the new values
\* of optimal and self.opt, and best, the number of the run self.opt is from
Select(optimal, opt0, best, i, new_opt) ==
    LET first == optimal = None
        optimal1 == IF first THEN new_opt.fun ELSE optimal
        better == ResultGreater(new_opt, optimal1)
    IN  [optimal |-> IF better THEN new_opt.fun ELSE optimal1,
         opt |-> IF first \/ better THEN new_opt.x ELSE opt0,
         best |-> IF first \/ better THEN i ELSE best]

\* lines 224-242: the loop over the guesses, from guess i on
RECURSIVE RunRestarts(_, _, _, _, _, _)
Selected(guesses, i, runs, new_opt, sel) ==
    RunRestarts(guesses, i + 1, sel.optimal, sel.opt, sel.best,
                Append(runs, [x |-> new_opt.x, fun |-> new_opt.fun,
                              success |-> new_opt.success]))

\* run i returned new_opt or raised
AfterRun(guesses, i, optimal, opt0, best, runs, new_opt) ==
    IF new_opt.raised
    THEN [err |-> "TypeError", opt |-> opt0, best |-> best, runs |-> runs, started |-> i]
    ELSE Selected(guesses, i, runs, new_opt, Select(optimal, opt0, best, i, new_opt))

RunRestarts(guesses, i, optimal, opt0, best, runs) ==
    IF i > Len(guesses)
    THEN [err |-> "none", opt |-> opt0, best |-> best, runs |-> runs, started |-> i - 1]
    ELSE AfterRun(guesses, i, optimal, opt0, best, runs, Minimize(guesses[i]))

\* lines 245-251: alpha (part = 0) or beta (part = 1) of every category
Published(vector, part) ==
    [name \in DOMAIN imap |->
        NumpyExp(MaskedSum(SubSeq(vector, part * n_cats + 1, (part + 1) * n_cats),
                           imap[name], 1))]

FitSummary(restarts, guesses, err, a, b) ==
    [seed |-> seed, restarts |-> restarts, guesses |-> guesses, err |-> err,
     alpha |-> a, beta |-> b]

LastTwo(log) == IF Len(log) > 2 THEN Tail(log) ELSE log

\* ShiftedBeta.fit(restarts)
fit(restarts) ==
    IF restarts < 0
    THEN \* line 213: numpy refuses a negative dimension
         /\ call' = [op |-> "fit", restarts |-> restarts, err |-> "ValueError",
                     drawn |-> 0, started |-> 0, evals |-> 0, best |-> 0,
                     runs |-> << >>, touched |-> FALSE, published |-> FALSE]
         /\ fits' = LastTwo(Append(fits, FitSummary(restarts, << >>, "ValueError", alpha, beta)))
         /\ UNCHANGED <<rng, opt, alpha, beta>>
    ELSE \E drawn \in {DrawGuesses(rng, restarts, 2 * n_cats)} :
         \E loop \in {RunRestarts(drawn.guesses, 1, None, opt, 0, << >>)} :
         \E err \in {IF loop.err # "none" THEN loop.err
                     ELSE IF loop.opt = OptNone THEN "TypeError"  \* line 250: None[:n]
                     ELSE "none"} :
         \E a \in {IF err = "none" THEN Published(loop.opt, 0) ELSE alpha} :
         \E b \in {IF err = "none" THEN Published(loop.opt, 1) ELSE beta} :
             /\ rng' = drawn.rng
             /\ opt' = loop.opt
             /\ alpha' = a
             /\ beta' = b
             /\ call' = [op |-> "fit", restarts |-> restarts, err |-> err,
                         drawn |-> Len(drawn.guesses), started |-> loop.started,
                         evals |-> loop.started, best |-> loop.best, runs |-> loop.runs,
                         touched |-> (loop.runs # << >> \/ loop.err = "none"),
                         published |-> (err = "none")]
             /\ fits' = LastTwo(Append(fits, FitSummary(restarts, drawn.guesses, err, a, b)))

\* ShiftedBeta.get_coeffs()
get_coeffs == [c \in DOMAIN alpha |-> [alpha |-> alpha[c], beta |-> beta[c]]]

\* ShiftedBeta.get_params()
get_params == [n_categories |-> n_cats, categories |-> categories, imap |-> imap]

LabelSets == {1..n : n \in 1..MaxCats} \cup {{1, MaxCats}, {MaxCats}}

\* the cohort of every category: a valid one, one of a single period, or
\* one whose active count increases
ShapeCohort(shape) ==
    CASE shape = "valid" -> Cohort(<<0, 1>>, 1)
      [] shape = "short" -> [active |-> <<2>>, lost |-> <<0>>]
      [] shape = "increasing" -> [active |-> <<1, 2>>, lost |-> <<0, 0>>]

Datasets ==
    {[c \in labels |-> <<ShapeCohort(shape)>>] :
        labels \in LabelSets, shape \in {"valid", "short", "increasing"}}

Init ==
    /\ \E d \in Datasets : Constructed(d)
    /\ RecIdle
    /\ LogpIdle
    /\ seed \in Seeds
    /\ rng = seed
    /\ minimizer \in [Basins -> Outcomes]
    /\ call = NoCall
    /\ fits = << >>
    /\ n_calls = 0

Fit ==
    /\ n_calls < MaxCalls
    /\ \E restarts \in -1..MaxRestarts : fit(restarts)
    /\ n_calls' = n_calls + 1
    /\ UNCHANGED <<data, categories, n_cats, imap, seed, minimizer, recVars, logpVars>>

GetCoeffs ==
    /\ n_calls < MaxCalls
    /\ call' = [op |-> "get_coeffs", ret |-> get_coeffs]
    /\ n_calls' = n_calls + 1
    /\ UNCHANGED <<objVars, seed, rng, minimizer, fits, recVars, logpVars>>

GetParams ==
    /\ n_calls < MaxCalls
    /\ call' = [op |-> "get_params", ret |-> get_params]
    /\ n_calls' = n_calls + 1
    /\ UNCHANGED <<objVars, seed, rng, minimizer, fits, recVars, logpVars>>

Next == Fit \/ GetCoeffs \/ GetParams

Spec == Init /\ [][Next]_vars

(***************************************************************************)
(* Properties of the retention recursion.                                  *)
(***************************************************************************)
FOne == FInt(1)

\* the value of a finite float in units of 2^ExpLo
Scaled(x) == x.m * Pow2(x.e - ExpLo)

RECURSIVE SumScaled(_, _, _)
SumScaled(list, from, to) ==
    IF from > to THEN 0 ELSE Scaled(PyAt(list, from)) + SumScaled(list, from + 1, to)

\* C9: for num_periods >= 2 the recursion returns P and S of length
\* num_periods each, index 0 an unused placeholder, P[1] = alpha / (alpha + beta),
\* S[1] = 1 - P[1], and P[t] = ((beta + t - 2) / (alpha + beta + t - 1)) * P[t-1]
\* for every t in 2..num_periods-1.
C9_RecursionShape ==
    r_pc = "done" =>
        LET P == r_out.p
            S == r_out.s
        IN  /\ Len(P) = r_num_periods
            /\ Len(S) = r_num_periods
            /\ PyAt(P, 0) = None
            /\ PyAt(S, 0) = None
            /\ PyAt(P, 1) = FDiv(r_alpha, FAdd(r_alpha, r_beta))
            /\ PyAt(S, 1) = FSub(FOne, PyAt(P, 1))
            /\ \A t \in 2..(r_num_periods - 1) :
                  PyAt(P, t) =
                      FMul(FDiv(FSub(FAdd(r_beta, FInt(t)), FInt(2)),
                                FSub(FAdd(FAdd(r_alpha, r_beta), FInt(t)), FInt(1))),
                           PyAt(P, t - 1))

\* the recursion has run over the longest horizon and its recursive step
\* produced positive, strictly decreasing churn probabilities
C9_Witness ==
    /\ r_pc = "done"
    /\ r_num_periods = MaxPeriods
    /\ \A t \in 2..(MaxPeriods - 1) :
          /\ IsFin(PyAt(r_out.p, t))
          /\ PyAt(r_out.p, t).m > 0
          /\ PyAt(r_out.p, t) # PyAt(r_out.p, t - 1)

\* C7: for alpha > 0, beta > 0 and num_periods >= 2, for every t in
\* 1..num_periods-1: P[t] >= 0 and S[t] >= 0; S[t] = S[t-1] - P[t] and
\* S[t] <= S[t-1] for t >= 2; and the sum of P[1..num_periods-1] is at most 1.
C7_RecursionBounds ==
    r_pc = "done" =>
        LET P == r_out.p
            S == r_out.s
        IN  /\ \A t \in 1..(r_num_periods - 1) :
                  /\ IsFin(PyAt(P, t)) /\ FGe(PyAt(P, t), FZero)
                  /\ IsFin(PyAt(S, t)) /\ FGe(PyAt(S, t), FZero)
            /\ \A t \in 2..(r_num_periods - 1) :
                  /\ PyAt(S, t) = FSub(PyAt(S, t - 1), PyAt(P, t))
                  /\ FLe(PyAt(S, t), PyAt(S, t - 1))
            /\ SumScaled(P, 1, r_num_periods - 1) <= Scaled(FOne)

(***************************************************************************)
(* Properties of the negative log-likelihood.                              *)
(***************************************************************************)
\* the alpha (or beta) of the category at canonical index i (from 0): the
\* exponential of the intercept plus, for i > 0, the category's own coefficient
CategoryParam(vector, i) ==
    NumpyExp(IF i = 0 THEN vector[1] ELSE vector[1] + vector[i + 1])

\* sum over t = from..length-1 of lost[t] * log(P[t])
RECURSIVE ChurnTerms(_, _, _, _)
ChurnTerms(P, lost, from, length) ==
    IF from > length - 1 THEN LZero
    ELSE LAdd(LTimes(NumpyLog(PyAt(P, from)), PyAt(lost, from)),
              ChurnTerms(P, lost, from + 1, length))

\* one cohort's term of the claimed likelihood
CohortTerms(a, b, val) ==
    LET length == Len(val.active)
        out == recursive_retention_stats(a, b, length)
    IN  LAdd(ChurnTerms(out.p, val.lost, 1, length),
             LTimes(NumpyLog(PyAt(out.s, length - 1)), PyAt(val.active, length - 1)))

RECURSIVE CohortsTerms(_, _, _, _)
CohortsTerms(a, b, cohorts, j) ==
    IF j > Len(cohorts) THEN LZero
    ELSE LAdd(CohortTerms(a, b, cohorts[j]), CohortsTerms(a, b, cohorts, j + 1))

RECURSIVE CategoriesTerms(_, _, _, _)
CategoriesTerms(d, a, b, i) ==
    IF i >= Cardinality(DOMAIN d) THEN LZero
    ELSE LAdd(CohortsTerms(CategoryParam(a, i), CategoryParam(b, i),
                           d[sorted(DOMAIN d)[i + 1]], 1),
              CategoriesTerms(d, a, b, i + 1))

\* the dataset d with every lost[0] and every active[t], t < length - 1,
\* raised by one
Perturbed(d) ==
    [c \in DOMAIN d |->
        [j \in 1..Len(d[c]) |->
            LET val == d[c][j]
                length == Len(val.active)
            IN  [active |-> [i \in 1..length |->
                                IF i - 1 < length - 1 THEN val.active[i] + 1
                                ELSE val.active[i]],
                 lost |-> [i \in 1..Len(val.lost) |->
                                IF i - 1 = 0 THEN val.lost[i] + 1 ELSE val.lost[i]]]]]

\* C8: over a dataset whose cohorts all have length >= 2, the negative
\* log-likelihood is the negation of the sum, over every category and every
\* cohort of it, of (sum over t = 1..length-1 of lost[t] * log(P[t])) +
\* active[length-1] * log(S[length-1]), P and S from the recursion with
\* num_periods = length and the category's alpha and beta; lost[0] and
\* active[t] for t < length-1 do not influence the value.
C8_NegLogLikelihood ==
    l_pc = "done" =>
        /\ l_out = LNeg(CategoriesTerms(data, l_alpha, l_beta, 0))
        /\ l_out = LogpOf(Perturbed(data), imap, l_alpha, l_beta)

\* _logp has returned a finite value over two categories with different
\* parameters, one of them with cohorts that lost members before the horizon
C8_Witness ==
    /\ l_pc = "done"
    /\ l_out.k = "fin"
    /\ l_out.neg
    /\ n_cats = 2
    /\ l_alpha[2] # 0
    /\ BagCardinality(l_out.terms) >= 4
    /\ \E c \in DOMAIN data : \E j \in 1..Len(data[c]) :
          data[c][j].active[1] # data[c][j].active[Len(data[c][j].active)]

\* every probability the likelihood takes the logarithm of is a finite
\* float >= 0, and is exactly 0 only where its count is zero
RECURSIVE ZeroOnlyAtZeroCount(_, _, _, _)
ZeroOnlyAtZeroCount(d, a, b, i) ==
    \/ i >= Cardinality(DOMAIN d)
    \/ /\ \A j \in 1..Len(d[sorted(DOMAIN d)[i + 1]]) :
             LET val == d[sorted(DOMAIN d)[i + 1]][j]
                 length == Len(val.active)
                 out == recursive_retention_stats(CategoryParam(a, i), CategoryParam(b, i),
                                                  length)
                 S == PyAt(out.s, length - 1)
             IN  /\ \A t \in 1..(length - 1) :
                       /\ IsFin(PyAt(out.p, t))
                       /\ PyAt(out.p, t).m >= 0
                       /\ PyAt(out.p, t).m = 0 => PyAt(val.lost, t) = 0
                 /\ IsFin(S)
                 /\ S.m >= 0
                 /\ S.m = 0 => PyAt(val.active, length - 1) = 0
       /\ ZeroOnlyAtZeroCount(d, a, b, i + 1)

\* some cohort has lost[t] = 0 at a period where P[t] is exactly 0
HasZeroCountAtZero(d, a, b) ==
    \E i \in 0..(Cardinality(DOMAIN d) - 1) :
        \E j \in 1..Len(d[sorted(DOMAIN d)[i + 1]]) :
            LET val == d[sorted(DOMAIN d)[i + 1]][j]
                length == Len(val.active)
                out == recursive_retention_stats(CategoryParam(a, i), CategoryParam(b, i),
                                                 length)
            IN  \E t \in 1..(length - 1) :
                    PyAt(out.p, t) = FZero /\ PyAt(val.lost, t) = 0

\* C10: a term whose count is zero contributes exactly 0 whatever the
\* probability: when lost[t] = 0 at a period where P[t] has underflowed to
\* exactly 0, the aggregated negative log-likelihood is still a finite number,
\* not NaN or infinite.
C10_ZeroCountGuard ==
    (/\ l_pc = "done"
     /\ ZeroOnlyAtZeroCount(data, l_alpha, l_beta, 0)
     /\ HasZeroCountAtZero(data, l_alpha, l_beta))
        => l_out.k = "fin"

(***************************************************************************)
(* Properties of fit and of the indicator map.  In call, the record of the *)
(* last call: drawn is the number of initial guesses drawn, started the    *)
(* number of minimizations started, evals the number of likelihood         *)
(* evaluations known to have been made (one per started minimization),     *)
(* runs the results of the minimizations that returned, best the number of *)
(* the run self.opt was taken from, touched whether self.opt, self.alpha   *)
(* or self.beta was read or written, published whether alpha and beta were *)
(* assigned.  An error of any class counts as a rejection.                 *)
(***************************************************************************)
\* every cohort has at least two periods and active counts that never increase
ValidDataset(d) ==
    \A c \in DOMAIN d : \A j \in 1..Len(d[c]) :
        /\ Len(d[c][j].active) >= 2
        /\ \A t \in 1..(Len(d[c][j].active) - 1) : d[c][j].active[t + 1] <= d[c][j].active[t]

\* a run that did not converge or ended at a non-finite objective value
Failed(run) == ~run.success \/ ~IsFin(run.fun)

\* the earliest of the runs with the lowest objective value
LowestRun(runs) ==
    CHOOSE b \in 1..Len(runs) :
        /\ \A j \in 1..Len(runs) : FGe(runs[j].fun, runs[b].fun)
        /\ \A j \in 1..(b - 1) : runs[j].fun # runs[b].fun

\* C1: for restarts >= 1, when fit ends self.opt is the result vector of the
\* run whose objective value is the lowest of all runs, and of the earliest
\* of them when several share that value.
C1_BestIsLowest ==
    (/\ call.op = "fit"
     /\ call.restarts >= 1
     /\ call.err = "none"
     /\ \A j \in 1..Len(call.runs) : ~Failed(call.runs[j]))
        => opt = call.runs[LowestRun(call.runs)].x

\* C2: a restart whose minimization fails is never the run selected as best
\* and does not stop the remaining restarts; if every restart fails, fit ends
\* with an error and publishes no alpha/beta.
C2_FailedRestartsExcluded ==
    (/\ call.op = "fit"
     /\ call.restarts >= 1
     /\ ValidDataset(data))
        => /\ call.started = call.restarts
           /\ call.best \in 1..Len(call.runs) => ~Failed(call.runs[call.best])
           /\ (\A j \in 1..Len(call.runs) : Failed(call.runs[j]))
                 => (call.err # "none" /\ ~call.published)

\* C3: a dataset with a cohort of length < 2, or with a cohort whose active
\* counts increase, is rejected with an error before any minimization run or
\* likelihood evaluation.
C3_InvalidDatasetRejected ==
    (/\ call.op = "fit"
     /\ call.restarts >= 1
     /\ ~ValidDataset(data))
        => /\ call.err # "none"
           /\ call.started = 0
           /\ call.evals = 0

\* C4: fit with restarts < 1 is rejected with an error before any initial
\* guess is drawn, any minimization is run, or opt, alpha or beta is read or
\* changed.
C4_RestartsRejected ==
    (/\ call.op = "fit"
     /\ call.restarts < 1)
        => /\ call.err # "none"
           /\ call.drawn = 0
           /\ call.started = 0
           /\ ~call.touched

\* C5: two calls of fit with the same seed and the same restart count on the
\* same dataset draw the same initial coefficient vectors and yield identical
\* per-category alpha and beta.
C5_FitIdempotent ==
    (/\ Len(fits) = 2
     /\ fits[1].seed = fits[2].seed
     /\ fits[1].restarts = fits[2].restarts
     /\ fits[1].restarts >= 1
     /\ ValidDataset(data))
        => /\ fits[1].guesses = fits[2].guesses
           /\ fits[1].alpha = fits[2].alpha
           /\ fits[1].beta = fits[2].beta

\* the canonical (sorted) index of category c, from 0
Rank(c) == Cardinality({d \in DOMAIN data : d < c})

TrueCount(v) == Cardinality({j \in 1..Len(v) : v[j]})

\* C6: after construction and after any calls of fit, get_coeffs and
\* get_params, the indicator vector of every category has length n_cats, has
\* index 0 and the category's canonical index true and every other entry
\* false: exactly 1 true entry for the category at index 0, exactly 2 for
\* every other category.
C6_IndicatorVectors ==
    /\ n_cats = Cardinality(DOMAIN data)
    /\ DOMAIN imap = DOMAIN data
    /\ \A c \in DOMAIN data :
          /\ Len(imap[c]) = n_cats
          /\ \A j \in 1..n_cats : imap[c][j] <=> (j - 1 = 0 \/ j - 1 = Rank(c))
          /\ TrueCount(imap[c]) = IF Rank(c) = 0 THEN 1 ELSE 2

\* a fit has published parameters over the categories 1 and MaxCats, and
\* get_params then returned the indicator map, whose vector for MaxCats (at
\* canonical index 1) has both entries true
C6_Witness ==
    /\ call.op = "get_params"
    /\ categories = <<1, MaxCats>>
    /\ fits # << >>
    /\ fits[Len(fits)].err = "none"
    /\ fits[Len(fits)].restarts = MaxRestarts
    /\ call.ret.imap[MaxCats] = <<TRUE, TRUE>>
    /\ call.ret.imap[1] = <<TRUE, FALSE>>

=============================================================================
